---- MODULE Spec2Model ----
(***************************************************************************)
(* QuickFilings backend (src/main.py): the /search handler, the SEC        *)
(* ticker resolver get_cik_from_ticker, the EDGAR history classifier       *)
(* get_sec_filings and the merge / de-duplicate / sort block that closes   *)
(* search_company.                                                         *)
(*                                                                         *)
(* Three specifications share the variables:                               *)
(*   Spec        the /search handler as it executes, request after request *)
(*   FilingsSpec one call of get_sec_filings, row by row                   *)
(*   AggSpec     the aggregation block of search_company (lines 679-711)   *)
(*                                                                         *)
(* Strings the code manipulates (tickers, CIKs, accession numbers, dates,   *)
(* names) are sequences of short strings.  A datetime is counted in half   *)
(* days from 1 January of EpochYear: 2 * day is midnight of that day.      *)
(***************************************************************************)
EXTENDS Integers, Sequences, FiniteSets, TLC

VARIABLES
    pc,             \* position of the running handler / function
    ticker,         \* search_company: parameter ticker (rebound at line 664)
    file_types,     \* parameter file_types
    quarters_back,  \* parameter quarters_back
    annuals_back,   \* parameter annuals_back
    cik,            \* resolved CIK string, or None
    outcome,        \* how the call ended
    tickerTable,    \* upstream company_tickers.json, in iteration order
    tableFetches,   \* GETs of company_tickers.json issued by the process
    callFetches,    \* upstream GETs issued by the current search call
    resolved,       \* symbols some earlier search resolved to a CIK
    served,         \* number of search calls started
    response,       \* upstream answer to the submissions GET
    now,            \* datetime.now() of the call, in half days
    i,              \* loop index
    files,          \* get_sec_filings: files
    sec_files,      \* search_company: what get_sec_filings returned
    ir_files,       \* search_company: what scrape_company_ir_site returned
    all_files,      \* search_company: all_files
    unique_files,   \* search_company: unique_files
    seen_names,     \* search_company: seen_names
    tableStatus,    \* get_cik_from_ticker: how the GET of the table ended
    detail          \* detail of the HTTPException the call raised

vars == <<pc, ticker, file_types, quarters_back, annuals_back, cik, outcome,
          tickerTable, tableFetches, callFetches, resolved, served,
          response, now, i, files, sec_files, ir_files, all_files,
          unique_files, seen_names, tableStatus, detail>>

\* the parameters of a call
paramVars == <<ticker, file_types, quarters_back, annuals_back>>

\* the upstream and the clock
envVars == <<tickerTable, response, now>>

\* what the process has done so far
historyVars == <<tableFetches, resolved, served>>

\* how the identifier-table GET ended and what the error response says
answerVars == <<tableStatus, detail>>

\* the locals of the aggregation block of search_company
aggVars == <<sec_files, ir_files, all_files, unique_files, seen_names>>

\* Python's None where a string is expected: a string no digit string equals
None == <<"None">>

----------------------------------------------------------------------------
(* Bounds of the model *)

\* search calls served by the process in one behaviour
MaxRequests == 2

\* largest quarters_back / annuals_back a caller passes
MaxBack == 1

\* rows in one upstream history table
MaxRows == 2

\* descriptors one source hands to the aggregation
MaxFiles == 2

----------------------------------------------------------------------------
(* Strings *)

RECURSIVE SeqMap(_, _)
SeqMap(f, s) == IF s = <<>> THEN <<>> ELSE <<f[Head(s)]>> \o SeqMap(f, Tail(s))

Chars == {"a", "b", "A", "B", "Q", " ", "0", "1", "2", "3", "4", "5", "6", "7", "8", "9"}

\* str.upper() on one character
UpperChar == [c \in Chars |-> IF c = "a" THEN "A" ELSE IF c = "b" THEN "B" ELSE c]

\* str.upper()
Upper(s) == SeqMap(UpperChar, s)

RECURSIVE LStrip(_, _)
\* str.lstrip(chars) for a one-character set
LStrip(s, c) == IF s # <<>> /\ Head(s) = c THEN LStrip(Tail(s), c) ELSE s

RECURSIVE RStrip(_, _)
RStrip(s, c) ==
    IF s # <<>> /\ s[Len(s)] = c THEN RStrip(SubSeq(s, 1, Len(s) - 1), c) ELSE s

\* str.strip(): leading and trailing whitespace removed
Strip(s) == RStrip(LStrip(s, " "), " ")

DigitChar == [d \in 0..9 |-> <<"0", "1", "2", "3", "4", "5", "6", "7", "8", "9">>[d + 1]]

RECURSIVE Str(_)
\* str(n) for a non-negative integer
Str(n) == IF n < 10 THEN <<DigitChar[n]>> ELSE Str(n \div 10) \o <<DigitChar[n % 10]>>

RECURSIVE ZFill(_, _)
\* str.zfill(width)
ZFill(s, width) == IF Len(s) >= width THEN s ELSE ZFill(<<"0">> \o s, width)

\* width of a CIK string
CikWidth == 10

----------------------------------------------------------------------------
(* Calendar: day 0 is 1 January of EpochYear *)

EpochYear == 2000 + 18

IsLeap(y) == (y % 4 = 0) /\ ((y % 100 # 0) \/ (y % 400 = 0))

YearLen(y) == IF IsLeap(y) THEN 366 ELSE 365

MonthLen(y, m) ==
    IF m = 2 THEN (IF IsLeap(y) THEN 29 ELSE 28)
    ELSE IF m \in {4, 6, 9, 11} THEN 30 ELSE 31

RECURSIVE DaysBeforeYear(_)
DaysBeforeYear(y) ==
    IF y <= EpochYear THEN 0 ELSE DaysBeforeYear(y - 1) + YearLen(y - 1)

RECURSIVE DaysBeforeMonth(_, _)
DaysBeforeMonth(y, m) ==
    IF m <= 1 THEN 0 ELSE DaysBeforeMonth(y, m - 1) + MonthLen(y, m - 1)

\* the day number of a calendar date
DayNumber(y, m, d) == DaysBeforeYear(y) + DaysBeforeMonth(y, m) + (d - 1)

RECURSIVE YearFrom(_, _)
YearFrom(y, day) == IF day < YearLen(y) THEN y ELSE YearFrom(y + 1, day - YearLen(y))

\* datetime.year of a day
YearOf(day) == YearFrom(EpochYear, day)

RECURSIVE MonthFrom(_, _, _)
MonthFrom(y, m, day) ==
    IF day < MonthLen(y, m) THEN m ELSE MonthFrom(y, m + 1, day - MonthLen(y, m))

\* datetime.month of a day
MonthOf(day) == MonthFrom(YearOf(day), 1, day - DaysBeforeYear(YearOf(day)))

\* datetime.day of a day
DayOf(day) ==
    day - DaysBeforeYear(YearOf(day)) - DaysBeforeMonth(YearOf(day), MonthOf(day)) + 1

\* the date string 'YYYY-MM-DD' of a day (datetime.isoformat of the date)
IsoDate(day) ==
    ZFill(Str(YearOf(day)), 4) \o <<"-">> \o ZFill(Str(MonthOf(day)), 2)
        \o <<"-">> \o ZFill(Str(DayOf(day)), 2)

Digits == {"0", "1", "2", "3", "4", "5", "6", "7", "8", "9"}

DigitValue(c) == CHOOSE d \in 0..9 : DigitChar[d] = c

RECURSIVE AllDigits(_)
AllDigits(s) == s = <<>> \/ (Head(s) \in Digits /\ AllDigits(Tail(s)))

RECURSIVE IntOf(_)
\* int(s) of a digit string
IntOf(s) == IF s = <<>> THEN 0 ELSE 10 * IntOf(SubSeq(s, 1, Len(s) - 1)) + DigitValue(s[Len(s)])

RECURSIVE Split(_, _)
\* str.split(c)
Split(s, c) ==
    IF s = <<>> THEN << <<>> >>
    ELSE LET rest == Split(Tail(s), c)
         IN  IF Head(s) = c THEN << <<>> >> \o rest
             ELSE << <<Head(s)>> \o Head(rest) >> \o Tail(rest)

\* what strptime answers for a string it rejects (a ValueError)
NoDate == 0 - 1

\* datetime.strptime(s, '%Y-%m-%d') as a day number: %Y takes four digits,
\* %m and %d one or two, and the date must exist; NoDate for a ValueError.
\* The calendar of the model starts at EpochYear.
ParseDate(s) ==
    LET f == Split(s, "-")
    IN  IF Len(f) # 3 THEN NoDate
        ELSE IF ~(AllDigits(f[1]) /\ AllDigits(f[2]) /\ AllDigits(f[3])) THEN NoDate
        ELSE IF Len(f[1]) # 4 \/ Len(f[2]) \notin {1, 2} \/ Len(f[3]) \notin {1, 2}
        THEN NoDate
        ELSE LET y == IntOf(f[1])
                 m == IntOf(f[2])
                 d == IntOf(f[3])
             IN  IF y < EpochYear \/ m \notin 1..12 THEN NoDate
                 ELSE IF d \notin 1..MonthLen(y, m) THEN NoDate
                 ELSE DayNumber(y, m, d)

\* a filing date the upstream sends that strptime rejects
BadDate == <<"2", "0", "2", "4", "-", "1", "3", "-", "4", "0">>

\* whether datetime.strptime(s, '%Y-%m-%d') returns (otherwise: ValueError)
ParsesAsDate(s) == ParseDate(s) # NoDate

\* datetime.strptime(s, '%Y-%m-%d'): the midnight of the day, in half days
Strptime(s) == 2 * ParseDate(s)

\* timedelta(days = n)
Days(n) == 2 * n

----------------------------------------------------------------------------
(* The identifier table and get_cik_from_ticker *)

\* one entry of company_tickers.json; a missing 'ticker' key reads as ''
Entry(t, c) == [ticker |-> t, cik_str |-> c]

TickerTables ==
    { <<Entry(<<"A">>, 7), Entry(<<"a", "b">>, 320193)>>,
      <<Entry(<<"B">>, 42), Entry(<<"A">>, 7), Entry(<<"A">>, 8)>>,
      <<Entry(<<>>, 9), Entry(<<"A", "B">>, 320193)>> }

\* how the GET of company_tickers.json ends: a status, or an exception
TableStatuses == {"200", "503", "exception"}

RECURSIVE FirstMatch(_, _)
\* the loop of lines 305-308: the first entry whose symbol matches
FirstMatch(table, t) ==
    IF table = <<>> THEN None
    ELSE IF Upper(Head(table).ticker) = Upper(t)
         THEN ZFill(Str(Head(table).cik_str), CikWidth)
         ELSE FirstMatch(Tail(table), t)

\* get_cik_from_ticker: None on an exception, a non-200 status or no match
get_cik_from_ticker(status, table, t) ==
    IF status = "200" THEN FirstMatch(table, t) ELSE None

----------------------------------------------------------------------------
(* search_company as it executes *)

LongTicker == <<"A", "A", "A", "A", "A", "A", "A", "A", "A", "A", "A">>

RequestTickers ==
    { <<>>, <<" ">>, <<"a">>, <<" ", "A", "B", " ">>, <<"Q">>, LongTicker }

FileTypeSets ==
    { {}, {"quarterlyAnnual"}, {"form8k"}, {"quarterlyAnnual", "form8k"},
      {"earnings", "presentations"} }

\* an annuals_back long enough to reach past the absolute cutoff of line 338
DeepBack == 7

\* the quarters_back and annuals_back callers pass
QuarterBacks == 0..MaxBack

AnnualBacks == (0..MaxBack) \cup {DeepBack}

\* lines 661-667: the empty-ticker check, the normalisation and the
\* identifier-table GET that get_cik_from_ticker sends
SearchCall(t, ft, q, a) ==
    /\ pc = "idle"
    /\ served < MaxRequests
    /\ served' = served + 1
    /\ file_types' = ft
    /\ quarters_back' = q
    /\ annuals_back' = a
    /\ cik' = None
    /\ IF t = <<>>
       THEN /\ ticker' = t
            /\ outcome' = "http400"
            /\ detail' = <<"Ticker symbol is required">>
            /\ pc' = "done"
            /\ UNCHANGED <<tableFetches, callFetches>>
       ELSE /\ ticker' = Strip(Upper(t))
            /\ outcome' = "pending"
            /\ detail' = <<>>
            /\ pc' = "await_cik"
            /\ tableFetches' = tableFetches + 1
            /\ callFetches' = callFetches + 1
    /\ tableStatus' = "none"
    /\ UNCHANGED <<envVars, resolved, i, files, aggVars>>

\* line 668 with its test inverted: every answer counts as a CIK
NotFoundNever(c) == FALSE

\* line 668: 'if not cik' (a CIK is ten characters, so only None is falsy)
NotFound(c) == c = None

\* line 669: the detail of the 404
NotFoundDetail(t) == <<"Company not found for ticker: ">> \o t

\* lines 303-312 and 668-677: the identifier table's answer; no CIK is a
\* 404, and with a CIK the CompanyData constructor reads the name
\* company_name, which nothing binds: a NameError, which FastAPI answers
\* with status 500
TickerTableAnswer(status) ==
    /\ pc = "await_cik"
    /\ tableStatus' = status
    /\ cik' = get_cik_from_ticker(status, tickerTable, ticker)
    /\ IF NotFound(cik')
       THEN /\ outcome' = "http404"
            /\ detail' = NotFoundDetail(ticker)
            /\ UNCHANGED resolved
       ELSE /\ outcome' = "http500"
            /\ detail' = <<>>
            /\ resolved' = resolved \cup {ticker}
    /\ pc' = "done"
    /\ UNCHANGED <<paramVars, envVars, tableFetches, callFetches, served, i,
                   files, aggVars>>

\* the response is sent; the process waits for the next call
SearchDone ==
    /\ pc = "done"
    /\ pc' = "idle"
    /\ outcome' = "none"
    /\ callFetches' = 0
    /\ UNCHANGED <<paramVars, envVars, historyVars, answerVars, cik, i, files, aggVars>>

NoResponse == [status |-> "none", recent |-> "absent", form |-> <<>>,
               filingDate |-> <<>>, accessionNumber |-> <<>>]

Init ==
    /\ pc = "idle"
    /\ ticker = <<>>
    /\ file_types = {}
    /\ quarters_back = 0
    /\ annuals_back = 0
    /\ cik = None
    /\ outcome = "none"
    /\ tickerTable \in TickerTables
    /\ tableFetches = 0
    /\ callFetches = 0
    /\ resolved = {}
    /\ served = 0
    /\ response = NoResponse
    /\ now = 0
    /\ i = 0
    /\ files = <<>>
    /\ sec_files = <<>>
    /\ ir_files = <<>>
    /\ all_files = <<>>
    /\ unique_files = <<>>
    /\ seen_names = {}
    /\ tableStatus = "none"
    /\ detail = <<>>

Next ==
    \/ \E t \in RequestTickers, ft \in FileTypeSets, q \in QuarterBacks, a \in AnnualBacks :
          SearchCall(t, ft, q, a)
    \/ \E status \in TableStatuses : TickerTableAnswer(status)
    \/ SearchDone

Spec == Init /\ [][Next]_vars

----------------------------------------------------------------------------
(* FileItem and the descriptors get_sec_filings builds *)

RECURSIVE Remove(_, _)
\* str.replace(c, '')
Remove(s, c) ==
    IF s = <<>> THEN <<>>
    ELSE (IF Head(s) = c THEN <<>> ELSE <<Head(s)>>) \o Remove(Tail(s), c)

\* class FileItem; download_url defaults to None
FileItem(n, t, d, sz, u) ==
    [name |-> n, type |-> t, date |-> d, size |-> sz, url |-> u, download_url |-> None]


\* the f-string of lines 356, 370, 382 and 393
EdgarUrl(c, acc) ==
    <<"https://www.sec.gov/Archives/edgar/data/">> \o LStrip(c, "0")
        \o <<"/">> \o Remove(acc, "-") \o <<"/">> \o acc \o <<".txt">>

\* lines 351-357
Item10K(c, fd, acc) ==
    FileItem(<<"10K_">> \o Str(YearOf(ParseDate(fd))) \o <<"_">> \o Remove(acc, "-")
                 \o <<".pdf">>, "10-K Annual Filing", fd,
             "2.5 MB", EdgarUrl(c, acc))

\* lines 364-371
Item10Q(c, fd, acc) ==
    FileItem(<<"10Q_", "Q">> \o Str(((MonthOf(ParseDate(fd)) - 1) \div 3) + 1) \o <<"_">>
                 \o Str(YearOf(ParseDate(fd))) \o <<"_">> \o Remove(acc, "-") \o <<".pdf">>,
             "10-Q Quarterly Filing", fd, "1.8 MB", EdgarUrl(c, acc))

\* lines 377-383
ItemDEF14A(c, fd, acc) ==
    FileItem(<<"DEF14A_">> \o Str(YearOf(ParseDate(fd))) \o <<"_">> \o Remove(acc, "-")
                 \o <<".pdf">>, "Proxy Statement", fd,
             "3.1 MB", EdgarUrl(c, acc))

\* lines 388-394
Item8K(c, fd, acc) ==
    FileItem(<<"8K_">> \o fd \o <<"_">> \o Remove(acc, "-") \o <<".pdf">>,
             "8-K Current Report", fd,
             "650 KB", EdgarUrl(c, acc))

----------------------------------------------------------------------------
(* get_sec_filings *)

\* days of the absolute cutoff of line 338
MaxAgeDays == 365 * 6

\* days of the 8-K window of line 387
Form8KDays == 365

\* line 339 left out: no row is too old
TooOldNever(d, nw) == FALSE

\* line 339: the row is older than the absolute cutoff
TooOld(d, nw) == d < nw - Days(MaxAgeDays)

\* lines 346-350 and 373-376: the calendar-year window of 10-K and DEF 14A
AnnualInWindow(fd, a, nw) == (YearOf(nw \div 2) - YearOf(ParseDate(fd))) < a

\* lines 359-363: the 10-Q window, quarters_back * 3 months of 30 days
QuarterlyInWindow(d, q, nw) == d >= nw - Days((q * 3) * 30)

\* line 387: the fixed 8-K window
Form8KInWindow(d, nw) == d >= nw - Days(Form8KDays)

\* lines 345-383: the quarterlyAnnual branch; <<>> stands for file_item = None
QuarterlyAnnualItem(form_type, fd, acc, c, q, a, nw) ==
    IF form_type = "10-K" /\ a > 0
    THEN (IF AnnualInWindow(fd, a, nw) THEN <<Item10K(c, fd, acc)>> ELSE <<>>)
    ELSE IF form_type = "10-Q" /\ q > 0
    THEN (IF QuarterlyInWindow(Strptime(fd), q, nw) THEN <<Item10Q(c, fd, acc)>> ELSE <<>>)
    ELSE IF form_type = "DEF 14A" /\ a > 0
    THEN (IF AnnualInWindow(fd, a, nw) THEN <<ItemDEF14A(c, fd, acc)>> ELSE <<>>)
    ELSE <<>>

\* the form8k branch without its test of the form kind
IsForm8KAnyForm(ft, form_type) == "form8k" \in ft

\* line 385: the condition of the form8k branch
IsForm8K(ft, form_type) == "form8k" \in ft /\ form_type = "8-K"

\* lines 342-394: file_item for a row that parsed and is not too old
ClassifyRow(form_type, fd, acc, c, ft, q, a, nw) ==
    LET qa == IF "quarterlyAnnual" \in ft
              THEN QuarterlyAnnualItem(form_type, fd, acc, c, q, a, nw)
              ELSE <<>>
    IN  IF IsForm8K(ft, form_type) /\ Form8KInWindow(Strptime(fd), nw)
        THEN <<Item8K(c, fd, acc)>>
        ELSE qa

\* lines 332-400, one pass of the loop body: what is appended to files.
\* A position past the end of filingDate or accessionNumber is an
\* IndexError, a date strptime rejects a ValueError: both end in continue
ProcessRow(resp, idx, c, ft, q, a, nw) ==
    IF idx > Len(resp.filingDate) \/ idx > Len(resp.accessionNumber) THEN <<>>
    ELSE IF ~ParsesAsDate(resp.filingDate[idx]) THEN <<>>
    ELSE IF TooOld(Strptime(resp.filingDate[idx]), nw) THEN <<>>
    ELSE ClassifyRow(resp.form[idx], resp.filingDate[idx],
                     resp.accessionNumber[idx], c, ft, q, a, nw)

\* whether the pass over row idx raises inside the inner try
RowRaises(resp, idx) ==
    \/ idx > Len(resp.filingDate)
    \/ idx > Len(resp.accessionNumber)
    \/ ~ParsesAsDate(resp.filingDate[idx])

\* the loop left at the first row that raises, as a break in the inner
\* except (or no inner try at all) would leave it
AfterRowBreak(resp, idx) ==
    IF idx = Len(resp.form) \/ RowRaises(resp, idx) THEN "fs_return" ELSE "fs_loop"

\* lines 331 and 399-400: where the loop stands after the pass over row idx;
\* the inner except ends in continue, so a row that raised is like any other
AfterRow(resp, idx) == IF idx = Len(resp.form) THEN "fs_return" ELSE "fs_loop"

\* line 329: filings is truthy, and the loop of line 331 has rows
HasRows(resp) ==
    resp.status = "200" /\ resp.recent = "present" /\ Len(resp.form) > 0

\* lines 318-329: the GET of the submissions document and what comes back:
\* an exception (caught at line 402), a status other than 200, a document
\* without filings.recent, or the table the loop walks
FetchSubmissions ==
    /\ pc = "fs_call"
    /\ files' = <<>>
    /\ i' = 1
    /\ IF HasRows(response)
       THEN pc' = "fs_loop" /\ outcome' = "pending"
       ELSE pc' = "fs_return" /\ outcome' = "returned"
    /\ UNCHANGED <<paramVars, envVars, historyVars, answerVars, cik, callFetches, aggVars>>

\* lines 331-400: one pass of the loop; after the last row, line 405
ProcessFiling ==
    /\ pc = "fs_loop"
    /\ i <= Len(response.form)
    /\ files' = files \o ProcessRow(response, i, cik, file_types, quarters_back,
                                    annuals_back, now)
    /\ i' = i + 1
    /\ pc' = AfterRow(response, i)
    /\ outcome' = IF pc' = "fs_return" THEN "returned" ELSE "pending"
    /\ UNCHANGED <<paramVars, envVars, historyVars, answerVars, cik, callFetches, aggVars>>

\* the day the calls of the model are made: 31 March 2025
Today == DayNumber(2025, 3, 31)

\* datetime.now(): midnight of Today, or later that day
Nows == {2 * Today, 2 * Today + 1}

\* a row of the upstream table: form kind and filing date
Row(f, fd) == [form |-> f, filingDate |-> fd]

\* a filing date, as the upstream writes it, of the day n days before Today
Ago(n) == IsoDate(Today - n)

HistoryRows ==
    { Row("10-K", Ago(90)), Row("10-K", Ago(MaxAgeDays)), Row("10-K", Ago(MaxAgeDays + 1)),
      Row("10-Q", Ago(90)), Row("10-Q", BadDate), Row("DEF 14A", Ago(90)),
      Row("8-K", Ago(0)), Row("8-K", Ago(Form8KDays)),
      Row("10-K/A", Ago(0)), Row("S-1", Ago(0)) }

\* accession numbers, by position in the table
Accession(j) == <<"0", DigitChar[j], "-", "2", "5", "-", "0", DigitChar[j]>>

Histories == UNION { [1..n -> HistoryRows] : n \in 0..MaxRows }

Take(s, n) == SubSeq(s, 1, IF n < Len(s) THEN n ELSE Len(s))

\* lengths of filingDate and accessionNumber against n forms
ArrayLengths(n) ==
    {<<n, n>>} \cup (IF n > 0 THEN {<<n - 1, n>>, <<n, n - 1>>} ELSE {})

\* the submissions document with a filings.recent table
TableResponse(h, lens) ==
    [status |-> "200", recent |-> "present",
     form |-> [j \in 1..Len(h) |-> h[j].form],
     filingDate |-> [j \in 1..lens[1] |-> h[j].filingDate],
     accessionNumber |-> [j \in 1..lens[2] |-> Accession(j)]]

FailedResponse(st) == [NoResponse EXCEPT !.status = st]

\* a document whose filings.recent is missing
NoTableResponse == [NoResponse EXCEPT !.status = "200"]

Responses ==
    UNION { { TableResponse(h, lens) : lens \in ArrayLengths(Len(h)) } : h \in Histories }
      \cup { FailedResponse("503"), FailedResponse("exception"), NoTableResponse }

\* the CIK the calls of the model are made for
FilerCik == ZFill(Str(320193), CikWidth)

FilingsInit ==
    /\ pc = "fs_call"
    /\ ticker = <<>>
    /\ file_types \in FileTypeSets
    /\ quarters_back \in QuarterBacks
    /\ annuals_back \in AnnualBacks
    /\ cik = FilerCik
    /\ outcome = "pending"
    /\ tickerTable = <<>>
    /\ tableFetches = 0
    /\ callFetches = 0
    /\ resolved = {}
    /\ served = 0
    /\ response \in Responses
    /\ now \in Nows
    /\ i = 0
    /\ files = <<>>
    /\ sec_files = <<>>
    /\ ir_files = <<>>
    /\ all_files = <<>>
    /\ unique_files = <<>>
    /\ seen_names = {}
    /\ tableStatus = "none"
    /\ detail = <<>>

FilingsNext == FetchSubmissions \/ ProcessFiling

FilingsSpec == FilingsInit /\ [][FilingsNext]_vars

----------------------------------------------------------------------------
(* get_sec_filings as one function of its inputs *)

RECURSIVE ClassifyFrom(_, _, _, _, _, _, _)
\* the loop of lines 331-400 from row idx on
ClassifyFrom(resp, idx, c, ft, q, a, nw) ==
    IF idx > Len(resp.form) THEN <<>>
    ELSE ProcessRow(resp, idx, c, ft, q, a, nw)
            \o ClassifyFrom(resp, idx + 1, c, ft, q, a, nw)

\* get_sec_filings: the list it returns
get_sec_filings(resp, c, ft, q, a, nw) ==
    IF HasRows(resp) THEN ClassifyFrom(resp, 1, c, ft, q, a, nw) ELSE <<>>

----------------------------------------------------------------------------
(* scrape_company_ir_site and the descriptors it builds *)

\* lines 512-518; file_url is urljoin(base_url, href)
EarningsItem(file_date, file_url) ==
    FileItem(<<"Earnings_Call_">> \o [k \in 1..Len(file_date) |->
                 IF file_date[k] = "-" THEN "_" ELSE file_date[k]] \o <<".pdf">>,
             "Earnings Presentation", file_date, "850 KB", file_url)

\* lines 557-563
PresentationItem(file_date, file_url) ==
    FileItem(<<"Investor_Presentation_">> \o [k \in 1..Len(file_date) |->
                 IF file_date[k] = "-" THEN "_" ELSE file_date[k]] \o <<".pdf">>,
             "Investor Presentation", file_date, "4.2 MB", file_url)

\* lines 450-456 with the slices of lines 520 and 565: what the first IR
\* page that answers yields, from the earnings links and the presentation
\* links found on it
scrape_company_ir_site(earnings, presentations, ft, q) ==
    (IF "earnings" \in ft THEN Take(earnings, q) ELSE <<>>)
        \o (IF "presentations" \in ft THEN Take(presentations, q) ELSE <<>>)

----------------------------------------------------------------------------
(* The aggregation block of search_company, lines 679-711 *)

\* the code point of a character of a date string
CharCode(c) == IF c = "-" THEN 45 ELSE 48 + DigitValue(c)

RECURSIVE StrLess(_, _)
\* Python's a < b on strings
StrLess(a, b) ==
    IF b = <<>> THEN FALSE
    ELSE IF a = <<>> THEN TRUE
    ELSE IF Head(a) = Head(b) THEN StrLess(Tail(a), Tail(b))
    ELSE CharCode(Head(a)) < CharCode(Head(b))

RECURSIVE InsertByDateDesc(_, _)
\* x placed behind every element whose key is not smaller than its own
InsertByDateDesc(x, s) ==
    IF s = <<>> THEN <<x>>
    ELSE IF StrLess(Head(s).date, x.date) THEN <<x>> \o s
    ELSE <<Head(s)>> \o InsertByDateDesc(x, Tail(s))

RECURSIVE SortedFrom(_, _)
SortedFrom(s, acc) ==
    IF s = <<>> THEN acc ELSE SortedFrom(Tail(s), InsertByDateDesc(Head(s), acc))

\* the list left as it was
Unsorted(s) == s

\* line 706: list.sort(key = date, reverse = True), a stable sort on the
\* date strings
SortByDateDesc(s) == SortedFrom(s, <<>>)

\* scheme and host of the request's URL
RequestBase == "http://localhost:8000"

\* a rewrite that also files the descriptor under its proxied address
RelayRenaming(file) ==
    [file EXCEPT
        !.name = <<RequestBase, "/proxy?url=">> \o file.url,
        !.url = <<RequestBase, "/proxy?url=">> \o file.url]

\* lines 698-700: the url and download_url the loop writes into a descriptor
Relay(file) ==
    [file EXCEPT
        !.url = <<RequestBase, "/proxy?url=">> \o file.url,
        !.download_url = <<RequestBase, "/download?url=">> \o file.url
                            \o <<"&filename=">> \o file.name]

\* every name passes as new
IsNewAlways(name, seen) == TRUE

\* line 696: the name has not been seen
IsNew(name, seen) == name \notin seen

\* line 687: the IR site is scraped
WantsIr(ft) == "earnings" \in ft \/ "presentations" \in ft

\* lines 683-684: get_sec_filings returns and its list is appended first
SecFilingsReturn ==
    /\ pc = "agg_sec"
    /\ all_files' = all_files \o sec_files
    /\ pc' = IF WantsIr(file_types) THEN "agg_ir" ELSE "agg_dedup"
    /\ i' = 1
    /\ UNCHANGED <<paramVars, envVars, historyVars, answerVars, cik, outcome, callFetches,
                   files, sec_files, ir_files, unique_files, seen_names>>

\* lines 687-689: scrape_company_ir_site returns and its list is appended
IrScrapeReturn ==
    /\ pc = "agg_ir"
    /\ all_files' = all_files \o ir_files
    /\ pc' = "agg_dedup"
    /\ UNCHANGED <<paramVars, envVars, historyVars, answerVars, cik, outcome, callFetches,
                   i, files, sec_files, ir_files, unique_files, seen_names>>

\* lines 695-703: one pass of the loop over all_files
DedupStep ==
    /\ pc = "agg_dedup"
    /\ i <= Len(all_files)
    /\ IF IsNew(all_files[i].name, seen_names)
       THEN /\ unique_files' = Append(unique_files, Relay(all_files[i]))
            /\ seen_names' = seen_names \cup {all_files[i].name}
       ELSE UNCHANGED <<unique_files, seen_names>>
    /\ i' = i + 1
    /\ UNCHANGED <<pc, paramVars, envVars, historyVars, answerVars, cik, outcome, callFetches,
                   files, sec_files, ir_files, all_files>>

\* lines 706-711: the sort, and the SearchResponse returned
SortAndReturn ==
    /\ pc = "agg_dedup"
    /\ i > Len(all_files)
    /\ unique_files' = SortByDateDesc(unique_files)
    /\ pc' = "agg_done"
    /\ outcome' = "http200"
    /\ UNCHANGED <<paramVars, envVars, historyVars, answerVars, cik, callFetches, i, files,
                   sec_files, ir_files, all_files, seen_names>>

\* descriptors get_sec_filings builds, two of them with the same date
SecItems ==
    { Item8K(FilerCik, Ago(0), Accession(1)), Item10Q(FilerCik, Ago(90), Accession(2)),
      Item10K(FilerCik, Ago(90), Accession(3)), Item8K(FilerCik, Ago(Form8KDays), Accession(4)) }

\* links an IR page holds: the date find_earnings_files reads from the link
\* text ('Q1 2025' is 2025-03-15, no date is 2025-01-01) and the link target
EarningsLinks ==
    { EarningsItem(IsoDate(DayNumber(2025, 3, 15)), <<"https://ir.example.com/", "q1.pdf">>),
      EarningsItem(IsoDate(DayNumber(2025, 3, 15)), <<"https://ir.example.com/", "q1-slides.pdf">>),
      EarningsItem(IsoDate(DayNumber(2025, 1, 1)), <<"https://ir.example.com/", "call.pdf">>) }

PresentationLinks ==
    { PresentationItem(IsoDate(DayNumber(2024, 6, 15)), <<"https://ir.example.com/", "day.pdf">>),
      PresentationItem(IsoDate(DayNumber(2025, 1, 1)), <<"https://ir.example.com/", "deck.pdf">>) }

SeqsUpTo(S, n) == UNION { [1..k -> S] : k \in 0..n }

AggFileTypeSets == FileTypeSets \cup { {"earnings"}, {"form8k", "presentations"} }

AggInit ==
    /\ pc = "agg_sec"
    /\ ticker = <<"A">>
    /\ file_types \in AggFileTypeSets
    /\ quarters_back \in AnnualBacks
    /\ annuals_back = 1
    /\ cik = FilerCik
    /\ outcome = "pending"
    /\ tickerTable = <<>>
    /\ tableFetches = 0
    /\ callFetches = 0
    /\ resolved = {}
    /\ served = 0
    /\ response = NoResponse
    /\ now = 2 * Today
    /\ i = 0
    /\ files = <<>>
    /\ sec_files \in SeqsUpTo(SecItems, MaxFiles)
    /\ \E e \in SeqsUpTo(EarningsLinks, MaxFiles), p \in SeqsUpTo(PresentationLinks, 1) :
          ir_files = scrape_company_ir_site(e, p, file_types, quarters_back)
    /\ all_files = <<>>
    /\ unique_files = <<>>
    /\ seen_names = {}
    /\ tableStatus = "none"
    /\ detail = <<>>

AggNext == SecFilingsReturn \/ IrScrapeReturn \/ DedupStep \/ SortAndReturn

AggSpec == AggInit /\ [][AggNext]_vars

----------------------------------------------------------------------------
(* Claims about search_company as it executes (Spec) *)

\* C1: a search (with a non-empty category set) for a ticker the identifier
\* table holds, with the table fetched, ends by returning a SearchResult
\* (status 200), not an error.
C1_ResolvedSearchReturnsResult ==
    (pc = "done" /\ cik # None /\ file_types # {}) => outcome = "http200"

\* C9: a search for a symbol an earlier search resolved takes the
\* identifier from a cache: it sends no identifier-table request.
C9_ResolvedSymbolNotFetchedAgain ==
    (pc = "await_cik" /\ ticker \in resolved) => callFetches = 0

\* C10: a search whose ticker is empty (also after trimming) or longer than
\* 10 characters, or whose category set is empty, ends in the client error
\* 400 and sends no upstream request.
C10_InvalidInputRejectedUnsent ==
    (pc = "done" /\ (Len(ticker) = 0 \/ Len(ticker) > 10 \/ file_types = {}))
        => (outcome = "http400" /\ callFetches = 0)

\* no entry of the fetched table has the symbol the handler looks up (the
\* ticker as line 664 normalised it; entries compared as line 306 does)
NoEntryMatches ==
    \A j \in 1..Len(tickerTable) : Upper(tickerTable[j].ticker) # ticker

\* C11: when the identifier table was fetched with status 200 and none of
\* its entries has the looked-up symbol, the search ends in a 404 whose
\* detail names the symbol, and the table GET is the only upstream request
\* of the call (no history fetch, no secondary-source fetch).
C11_UnknownSymbolIsNotFound ==
    (pc = "done" /\ tableStatus = "200" /\ NoEntryMatches)
        => /\ outcome = "http404"
           /\ detail = <<"Company not found for ticker: ">> \o ticker
           /\ cik = None
           /\ callFetches = 1

C11_Witness ==
    /\ pc = "done"
    /\ tableStatus = "200"
    /\ NoEntryMatches
    /\ ticker = <<"Q">>
    /\ outcome = "http404"

----------------------------------------------------------------------------
(* Claims about get_sec_filings (FilingsSpec) *)

\* the filing kinds of the category table
CategoryTableKinds == {"10-K", "10-K/A", "10-Q", "10-Q/A", "8-K", "8-K/A", "DEF 14A"}

\* whether the row at idx is among the returned files: accession numbers
\* are one per row, and every descriptor's url is built from its row's
Admitted(idx) ==
    /\ idx <= Len(response.accessionNumber)
    /\ \E k \in 1..Len(files) : files[k].url = EdgarUrl(cik, response.accessionNumber[idx])

\* C2: with quarters_back = 0 and annuals_back = 0 get_sec_filings returns
\* no row, whatever the category set and the history.
C2_ZeroWindowsAdmitNothing ==
    (pc = "fs_return" /\ quarters_back = 0 /\ annuals_back = 0) => files = <<>>

\* C3: a row whose filing kind is not in the category table is never among
\* the files, for every category set, window and filing date.
C3_UnlistedKindNeverAdmitted ==
    \A idx \in 1..Len(response.form) :
        response.form[idx] \notin CategoryTableKinds => ~Admitted(idx)

\* C3 witness: the call returned after processing a row of an unlisted kind
\* that is dated today, has its accession number, and was requested with
\* both categories and open windows.
C3_Witness ==
    /\ pc = "fs_return"
    /\ file_types = {"quarterlyAnnual", "form8k"}
    /\ quarters_back > 0 /\ annuals_back > 0
    /\ \E idx \in 1..Len(response.form) :
          /\ response.form[idx] = "S-1"
          /\ idx <= Len(response.filingDate) /\ idx <= Len(response.accessionNumber)
          /\ response.filingDate[idx] = IsoDate(Today)

\* the response without row j: position j dropped from each array that has it
DropAt(s, j) == IF j <= Len(s) THEN SubSeq(s, 1, j - 1) \o SubSeq(s, j + 1, Len(s)) ELSE s

WithoutRow(resp, j) ==
    [resp EXCEPT !.form = DropAt(resp.form, j),
                 !.filingDate = DropAt(resp.filingDate, j),
                 !.accessionNumber = DropAt(resp.accessionNumber, j)]

\* the rows whose filing date does not parse
MalformedRows ==
    { j \in 1..Len(response.form) :
        j <= Len(response.filingDate) /\ ~ParsesAsDate(response.filingDate[j]) }

\* C6: a row whose filing date does not parse is left out, the call returns
\* without an error, and what it returns is what get_sec_filings returns for
\* the same history without that row.
C6_MalformedDateRowSkipped ==
    pc = "fs_return" =>
        \A j \in MalformedRows :
            /\ outcome = "returned"
            /\ ~Admitted(j)
            /\ files = get_sec_filings(WithoutRow(response, j), cik, file_types,
                                      quarters_back, annuals_back, now)

\* C6 witness: the call returned, a row with a malformed date was followed
\* by a row that was admitted.
C6_Witness ==
    /\ pc = "fs_return"
    /\ \E j \in MalformedRows : \E idx \in (j + 1)..Len(response.form) : Admitted(idx)

\* C7: when the history request fails (an exception, a status other than
\* 200) the failure is surfaced as an error: get_sec_filings does not hand
\* its caller a list as if the history had been read.
C7_FailedHistoryIsAnError ==
    (pc = "fs_return" /\ response.status # "200") => outcome # "returned"

\* whether the parallel arrays of the table differ in length
MismatchedArrays(resp) ==
    \/ Len(resp.filingDate) # Len(resp.form)
    \/ Len(resp.accessionNumber) # Len(resp.form)

\* C8: when filings.recent is absent or its parallel arrays differ in
\* length, the call fails; it does not return the rows that can be indexed.
C8_MalformedTableIsAnError ==
    (pc = "fs_return" /\ response.status = "200"
        /\ (response.recent = "absent" \/ MismatchedArrays(response)))
        => (outcome # "returned" /\ files = <<>>)

\* the rows of the given kinds that the loop can read: both parallel arrays
\* reach the position and the filing date parses
ReadableRows(kinds) ==
    { idx \in 1..Len(response.form) :
        /\ response.form[idx] \in kinds
        /\ idx <= Len(response.filingDate)
        /\ idx <= Len(response.accessionNumber)
        /\ ParsesAsDate(response.filingDate[idx]) }

\* the calendar day of the request
RequestDay == now \div 2

\* C12: with quarterlyAnnual requested, a 10-K or DEF 14A row is among the
\* returned files exactly when its filing date is not earlier than the day
\* of the request minus annuals_back * 365 days.
C12_AnnualWindowIs365Days ==
    (pc = "fs_return" /\ "quarterlyAnnual" \in file_types)
        => \A idx \in ReadableRows({"10-K", "DEF 14A"}) :
              Admitted(idx) <=>
                  ParseDate(response.filingDate[idx]) >= RequestDay - annuals_back * 365

\* C13: with quarterlyAnnual requested, a 10-Q row is among the returned
\* files exactly when its filing date is not earlier than the day of the
\* request minus quarters_back * 90 days, compared day against day, at
\* whatever time of day the request is processed.
C13_QuarterlyWindowByDay ==
    (pc = "fs_return" /\ "quarterlyAnnual" \in file_types)
        => \A idx \in ReadableRows({"10-Q"}) :
              Admitted(idx) <=>
                  ParseDate(response.filingDate[idx]) >= RequestDay - quarters_back * 90

\* C15: no returned descriptor has a filing date (the midnight strptime
\* reads) more than 6 * 365 days before the time of the request, for every
\* category set and every quarters_back and annuals_back.
C15_NothingOlderThanSixYears ==
    \A k \in 1..Len(files) :
        2 * ParseDate(files[k].date) >= now - 2 * (6 * 365)

\* C15 witness: the call returned after reading a 10-K one day older than
\* the cutoff, asked for with an annuals_back whose calendar-year window
\* reaches it.
C15_Witness ==
    /\ pc = "fs_return"
    /\ "quarterlyAnnual" \in file_types
    /\ annuals_back = DeepBack
    /\ \E idx \in ReadableRows({"10-K"}) :
          /\ response.filingDate[idx] = Ago(MaxAgeDays + 1)
          /\ AnnualInWindow(response.filingDate[idx], annuals_back, now)

----------------------------------------------------------------------------
(* Claims about the aggregation block of search_company (AggSpec) *)

\* the merge order: the regulatory feed first, then the IR site if scraped
Merged == sec_files \o (IF WantsIr(file_types) THEN ir_files ELSE <<>>)

\* the first descriptor of s with name n
FirstNamed(s, n) == s[CHOOSE k \in 1..Len(s) : s[k].name = n /\ \A j \in 1..(k - 1) : s[j].name # n]

\* C4: the files of a result are in descending order of filing date: of
\* any two, the one that comes first has the later or the same date.
C4_ResultByDateDescending ==
    pc = "agg_done" =>
        \A a, b \in 1..Len(unique_files) :
            a < b => ParseDate(unique_files[a].date) >= ParseDate(unique_files[b].date)

\* C4 witness: a result with descriptors of both sources whose merged list
\* was not in date order.
C4_Witness ==
    /\ pc = "agg_done"
    /\ Len(unique_files) >= 3
    /\ sec_files # <<>> /\ WantsIr(file_types) /\ ir_files # <<>>
    /\ \E a, b \in 1..Len(all_files) :
          a < b /\ ParseDate(all_files[a].date) < ParseDate(all_files[b].date)

\* C5: no two descriptors of a result have the same name; of the merged
\* descriptors with one name the first in merge order survives, and the
\* regulatory feed's descriptors are merged first.
C5_FirstOfEachNameSurvives ==
    /\ pc \in {"agg_dedup", "agg_done"} => all_files = Merged
    /\ pc = "agg_done" =>
          /\ \A a, b \in 1..Len(unique_files) :
                a # b => unique_files[a].name # unique_files[b].name
          /\ \A k \in 1..Len(unique_files) :
                /\ \E j \in 1..Len(Merged) : Merged[j].name = unique_files[k].name
                /\ unique_files[k] = Relay(FirstNamed(Merged, unique_files[k].name))
          /\ \A j \in 1..Len(Merged) :
                \E k \in 1..Len(unique_files) : unique_files[k].name = Merged[j].name

\* C5 witness: a result whose merged list held, behind descriptors of the
\* regulatory feed, two descriptors with one name and different urls.
C5_Witness ==
    /\ pc = "agg_done"
    /\ sec_files # <<>>
    /\ \E a, b \in 1..Len(all_files) :
          /\ a < b
          /\ all_files[a].name = all_files[b].name
          /\ all_files[a].url # all_files[b].url

\* what identifies a document: every field but the two the rewrite writes
Identity(file) == <<file.name, file.type, file.date, file.size>>

IdentitiesOf(s) == [k \in 1..Len(s) |-> Identity(s[k])]

\* the descriptors of s kept by name, first occurrence, nothing rewritten
PlainUnique(s) ==
    LET firsts == { k \in 1..Len(s) : \A j \in 1..(k - 1) : s[j].name # s[k].name }
        RECURSIVE From(_)
        From(k) == IF k > Len(s) THEN <<>>
                   ELSE (IF k \in firsts THEN <<s[k]>> ELSE <<>>) \o From(k + 1)
    IN  From(1)

\* C14: the URL rewrite changes only url and download_url of a descriptor:
\* name, type, date and size stay, so the descriptors that survive and the
\* order of the result are those of the same merge without the rewrite.
C14_RelayKeepsIdentityAndOrder ==
    /\ pc = "agg_dedup" =>
          IdentitiesOf(unique_files) = IdentitiesOf(PlainUnique(SubSeq(all_files, 1, i - 1)))
    /\ pc = "agg_done" =>
          IdentitiesOf(unique_files) = IdentitiesOf(SortByDateDesc(PlainUnique(Merged)))

\* C14 witness: a result of three or more descriptors, each with its url
\* rewritten and its download_url set, out of a merged list that held a
\* repeated name and was not in date order.
C14_Witness ==
    /\ pc = "agg_done"
    /\ Len(unique_files) >= 3
    /\ Len(all_files) > Len(unique_files)
    /\ \A k \in 1..Len(unique_files) :
          /\ unique_files[k].download_url # None
          /\ unique_files[k].url # FirstNamed(all_files, unique_files[k].name).url
    /\ IdentitiesOf(unique_files) # IdentitiesOf(PlainUnique(all_files))

====
